---- MODULE Spec2Model ----
(***************************************************************************)
(* CoinbaseGuard (src/cc/CoinbaseGuard.cpp): the crypto-condition eval     *)
(* that guards a staking reward against nothing-at-stake double staking.   *)
(*                                                                         *)
(* Every operation of the file is a synchronous call over its arguments    *)
(* and read-only chain lookups.  The state of the model is the record of   *)
(* the last call: the operation, its arguments and what it returned or     *)
(* wrote through its reference parameters.                                 *)
(*                                                                         *)
(* Representation.  A byte vector is a sequence over 0..255.  A uint32_t   *)
(* is a record [hi, lo] of its two 16-bit halves, so that the full 32-bit  *)
(* width is kept (wrap-around of the subtraction, shifts, comparison).     *)
(***************************************************************************)
EXTENDS Integers, Sequences, FiniteSets, TLC

(***************************************************************************)
(* Program constants.                                                      *)
(***************************************************************************)
OPRETTYPE_STAKEPARAMS == 2
OPRETTYPE_STAKECHEAT == 3
STAKE_MINPARAMS == 4
STAKE_MAXPARAMS == 5
VERUS_MIN_STAKEAGE == 150
nMaxDatacarrierBytes == 8192

(***************************************************************************)
(* uint32_t arithmetic on [hi, lo] halves.                                 *)
(***************************************************************************)

RECURSIVE Pow2(_)
Pow2(n) == IF n = 0 THEN 1 ELSE 2 * Pow2(n - 1)

Half == Pow2(16)

U32(h, l) == [hi |-> h, lo |-> l]

Zero32 == U32(0, 0)

\* a small non-negative int as a uint32_t
ToU32(n) == U32(n \div Half, n % Half)


RECURSIVE BitOr(_, _)
BitOr(a, b) ==
    IF a = 0 THEN b
    ELSE IF b = 0 THEN a
    ELSE 2 * BitOr(a \div 2, b \div 2) + (IF a % 2 = 1 \/ b % 2 = 1 THEN 1 ELSE 0)

\* a | b (each operand is bound to its value once)
Or32(a, b) ==
    CHOOSE r \in { U32(BitOr(x.hi, y.hi), BitOr(x.lo, y.lo)) : x \in {a}, y \in {b} } : TRUE

\* x << n on 32 bits, for a shift count 0 <= n < 32
Shl32(x, n) ==
    IF n < 16
    THEN U32(((x.hi * Pow2(n)) % Half) + ((x.lo * Pow2(n)) \div Half),
             (x.lo * Pow2(n)) % Half)
    ELSE U32((x.lo * Pow2(n - 16)) % Half, 0)

\* x >> n on 32 bits, for a shift count 0 <= n < 32
Shr32(x, n) ==
    IF n < 16
    THEN U32(x.hi \div Pow2(n),
             (x.lo \div Pow2(n)) + ((x.hi % Pow2(n)) * Pow2(16 - n)))
    ELSE U32(0, x.hi \div Pow2(n - 16))

\* a - b modulo 2^32
Sub32(a, b) ==
    LET borrow == IF a.lo < b.lo THEN 1 ELSE 0
    IN  U32((a.hi - b.hi - borrow) % Half, (a.lo - b.lo) % Half)

Geq32(a, b) == a.hi > b.hi \/ (a.hi = b.hi /\ a.lo >= b.lo)

Lt32(a, b) == ~Geq32(a, b)

\* the comparison `uint32_t >= int32_t`: the int is converted to unsigned
GeqInt32(a, n) == Geq32(a, IF n >= 0 THEN ToU32(n) ELSE Sub32(Zero32, ToU32(-n)))

(***************************************************************************)
(* Keys and hashes.                                                        *)
(***************************************************************************)
\* uint256(): all-zero
NullHash == [i \in 1..32 |-> 0]

\* CPubKey(): the invalid key, of size 0
InvalidKey == << >>

\* CPubKey::GetLen of the header byte
PubKeyLen(header) ==
    IF header = 2 \/ header = 3 THEN 33
    ELSE IF header = 4 \/ header = 6 \/ header = 7 THEN 65
    ELSE 0

\* CPubKey(vch): keeps the bytes when the header byte announces their length
CPubKey(vch) ==
    IF Len(vch) > 0 /\ PubKeyLen(vch[1]) = Len(vch) THEN vch ELSE InvalidKey

PubKeyIsValid(pk) == Len(pk) > 0

\* CPubKey::IsFullyValid: the curve check of the key library; a key whose
\* second byte is 0 stands for a well-sized key that is not a curve point
PubKeyIsFullyValid(pk) == PubKeyIsValid(pk) /\ pk[2] # 0

(***************************************************************************)
(* CStakeParams.                                                           *)
(***************************************************************************)
StakeParams(src, blk, hash, key) ==
    [srcHeight |-> src, blkHeight |-> blk, prevHash |-> hash, pk |-> key]

\* CStakeParams(): the default-constructed, invalid value
CStakeParamsDefault == StakeParams(Zero32, Zero32, NullHash, InvalidKey)

\* CStakeParams::IsValid
IsValid(p) == p.srcHeight # Zero32

\* for (i = 0; i < size; i++) h = h | vch[i] << (8 * i);
\* the byte is promoted to int and shifted; a byte >= 0x80 shifted by 24 lands
\* in the sign bit and converts back to the same 32 bits
RECURSIVE DecodeHeightLoop(_, _, _)
DecodeHeightLoop(vch, i, h) ==
    IF i < Len(vch)
    THEN DecodeHeightLoop(vch, i + 1, Or32(h, Shl32(U32(0, vch[i + 1]), 8 * i)))
    ELSE h

\* the height read most significant byte first: h = (h << 8) | vch[i]
RECURSIVE DecodeHeightLoopBE(_, _, _)
DecodeHeightLoopBE(vch, i, h) ==
    IF i < Len(vch)
    THEN DecodeHeightLoopBE(vch, i + 1, Or32(Shl32(h, 8), U32(0, vch[i + 1])))
    ELSE h

DecodeHeightBE(vch) == DecodeHeightLoopBE(vch, 0, Zero32)

DecodeHeight(vch) == DecodeHeightLoop(vch, 0, Zero32)

\* the fields read without the invalidation of lines 96-100: a key that does
\* not parse leaves the source height as decoded
StakeParamsReadKeepHeight(vData, src, blk) ==
    IF Len(vData) = 4
    THEN StakeParams(src, blk, vData[4], InvalidKey)
    ELSE StakeParams(src, blk, vData[4], CPubKey(vData[5]))

\* lines 78-106: the fields read from chunks of the right sizes; src and blk
\* are the two heights as decoded
StakeParamsRead(vData, src, blk) ==
    IF Len(vData) = 4
    THEN StakeParams(src, blk, vData[4], InvalidKey)
    ELSE IF Len(vData[5]) = 33
    THEN IF ~PubKeyIsValid(CPubKey(vData[5]))
         THEN StakeParams(Zero32, blk, vData[4], CPubKey(vData[5]))
         ELSE StakeParams(src, blk, vData[4], CPubKey(vData[5]))
    ELSE StakeParams(Zero32, blk, vData[4], InvalidKey)

\* CStakeParams::CStakeParams(vData), for the 4 or 5 chunks that
\* UnpackStakeOpRet lets through
CStakeParams(vData) ==
    IF /\ Len(vData[1]) = 1
       /\ vData[1][1] = OPRETTYPE_STAKEPARAMS
       /\ Len(vData[2]) <= 4
       /\ Len(vData[3]) <= 4
       /\ Len(vData[4]) = 32
       /\ \/ Len(vData) = STAKE_MINPARAMS
          \/ (Len(vData) = STAKE_MAXPARAMS /\ Len(vData[5]) = 33)
    THEN StakeParamsRead(vData, DecodeHeight(vData[2]), DecodeHeight(vData[3]))
    ELSE CStakeParamsDefault

(***************************************************************************)
(* Transactions and scripts.                                               *)
(*                                                                         *)
(* A transaction is [vin, vout]; an input is [prevout |-> [hash, n],       *)
(* sigOk, cc]; an output is [nValue, scriptPubKey].  A script is a record  *)
(* with a kind:                                                            *)
(*   "opret"  OP_RETURN output; ok is what GetOpretData returns for it,     *)
(*            chunks what GetOpretData leaves in vData, each chunk stood   *)
(*            for by the operations it gives when read as a script;        *)
(*   "cc"     pay-to-crypto-condition; params is the sequence of           *)
(*            COptCCParams that IsPayToCryptoCondition extracts;           *)
(*   "p2pk", "p2pkh", "other"  outputs of source transactions.             *)
(* An operation of an inner script is a push of bytes, OP_1..OP_16, an     *)
(* opcode that is no data, or a push cut short (GetOp fails).              *)
(***************************************************************************)
Push(vch) == [op |-> "push", vch |-> vch]
SmallInt(n) == [op |-> "small", vch |-> << n >>]
NonData == [op |-> "nondata", vch |-> << >>]
BadOp == [op |-> "bad", vch |-> << >>]

\* IsData(opcode)
IsData(item) == item.op = "push" \/ item.op = "small"

OpRetScript(ok, chunks) == [kind |-> "opret", ok |-> ok, chunks |-> chunks]

\* OP_RETURN followed by a single push of inner ("one"), by two pushes of it
\* ("many"), or by a push of it and a push cut short ("none")
OpRet(outer, inner) ==
    CASE outer = "one" -> OpRetScript(TRUE, << inner >>)
      [] outer = "many" -> OpRetScript(TRUE, << inner, inner >>)
      [] OTHER -> OpRetScript(FALSE, << inner >>)

\* CScript::GetOpretData(vData): [isValid, vData]; a script that does not
\* start with OP_RETURN gives false and no chunk
GetOpretData(script) ==
    IF script.kind = "opret"
    THEN [isValid |-> script.ok, vData |-> script.chunks]
    ELSE [isValid |-> FALSE, vData |-> << >>]

TxOut(value, script) == [nValue |-> value, scriptPubKey |-> script]

\* CTxOut(): the null output
NullTxOut == TxOut(-1, [kind |-> "empty"])

\* COutPoint::IsNull: the previous output of a coinbase input
NullPrevout == [hash |-> 0, n |-> -1]

IsCoinBase(tx) == Len(tx.vin) = 1 /\ tx.vin[1].prevout = NullPrevout

IsOpReturn(script) == script.kind = "opret"

\* the loop of UnpackStakeOpRet over the inner script: [isValid, vData]
RECURSIVE UnpackLoop(_, _, _, _)
UnpackLoop(data, pc, bytesTotal, vData) ==
    IF bytesTotal > nMaxDatacarrierBytes THEN [isValid |-> FALSE, vData |-> vData]
    ELSE IF pc > Len(data) THEN [isValid |-> TRUE, vData |-> vData]
    ELSE IF data[pc].op = "bad" THEN [isValid |-> FALSE, vData |-> vData]
    ELSE IF ~IsData(data[pc]) THEN [isValid |-> FALSE, vData |-> vData]
    ELSE UnpackLoop(data, pc + 1, bytesTotal + Len(data[pc].vch),
                    Append(vData, data[pc].vch))

\* lines 53-59: r is what the loop left
UnpackResult(r) ==
    [ret |-> /\ r.isValid
             /\ Len(r.vData) >= STAKE_MINPARAMS
             /\ Len(r.vData) <= STAKE_MAXPARAMS,
     vData |-> r.vData]

\* lines 30-59: o is what GetOpretData of line 28 gave.  vData is cleared
\* only inside the branch of line 30: otherwise the caller is left with the
\* chunks GetOpretData found
UnpackOpretData(o) ==
    IF o.isValid /\ Len(o.vData) = 1
    THEN UnpackResult(UnpackLoop(o.vData[1], 1, 0, << >>))
    ELSE [ret |-> FALSE, vData |-> o.vData]

\* lines 28-59 for the script of the last output
UnpackScript(script) == UnpackOpretData(GetOpretData(script))

\* UnpackStakeOpRet(stakeTx, vData): [ret, vData]
UnpackStakeOpRet(stakeTx) == UnpackScript(stakeTx.vout[Len(stakeTx.vout)].scriptPubKey)

\* lines 122-123: stakeParams = CStakeParams(vData); return IsValid()
DecodedParams(p) == [ret |-> IsValid(p), stakeParams |-> p]

\* lines 116-125, u being what UnpackStakeOpRet returns
GetStakeParamsUnpacked(stakeTx, stakeParams, u) ==
    IF /\ Len(stakeTx.vin) = 1
       /\ Len(stakeTx.vout) = 2
       /\ stakeTx.vout[1].nValue > 0
       /\ IsOpReturn(stakeTx.vout[2].scriptPubKey)
       /\ u.ret
    THEN DecodedParams(CStakeParams(u.vData))
    ELSE [ret |-> FALSE, stakeParams |-> stakeParams]

\* GetStakeParams(stakeTx, stakeParams): [ret, stakeParams]
GetStakeParams(stakeTx, stakeParams) ==
    GetStakeParamsUnpacked(stakeTx, stakeParams, UnpackStakeOpRet(stakeTx))

(***************************************************************************)
(* The chain the lookups read: myGetTransaction, mapBlockIndex, Solver.    *)
(***************************************************************************)
KeyA == [i \in 1..33 |-> IF i = 1 THEN 2 ELSE 7]
KeyB == [i \in 1..33 |-> IF i = 1 THEN 3 ELSE 9]
KeyOffCurve == [i \in 1..33 |-> IF i = 1 THEN 3 ELSE 0]
KeyBadHeader == [i \in 1..33 |-> 5]
GuardKey == [i \in 1..33 |-> IF i = 1 THEN 2 ELSE 11]
KeyHashA == [i \in 1..20 |-> 7]

\* source coins: transaction id |-> what the node knows of it
\*   1  pay-to-key output, confirmed at height 100
\*   2  pay-to-key-hash output, confirmed at height 100
\*   3  known transaction whose block is not in the block index
\*   4  non-standard output (Solver fails), confirmed at height 100
\*   5  multisig output (Solver succeeds with another type), height 100
\*   6  pay-to-key output, confirmed at height 70000
\*   any other id: unknown transaction
Chain(hash) ==
    CASE hash = 1 -> [found |-> TRUE, indexed |-> TRUE, height |-> ToU32(100),
                      vout |-> << [kind |-> "p2pk", key |-> KeyA] >>]
      [] hash = 2 -> [found |-> TRUE, indexed |-> TRUE, height |-> ToU32(100),
                      vout |-> << [kind |-> "p2pkh", key |-> KeyHashA] >>]
      [] hash = 3 -> [found |-> TRUE, indexed |-> FALSE, height |-> Zero32,
                      vout |-> << [kind |-> "p2pk", key |-> KeyA] >>]
      [] hash = 4 -> [found |-> TRUE, indexed |-> TRUE, height |-> ToU32(100),
                      vout |-> << [kind |-> "other", key |-> << >>] >>]
      [] hash = 5 -> [found |-> TRUE, indexed |-> TRUE, height |-> ToU32(100),
                      vout |-> << [kind |-> "multisig", key |-> KeyA] >>]
      [] hash = 6 -> [found |-> TRUE, indexed |-> TRUE, height |-> ToU32(70000),
                      vout |-> << [kind |-> "p2pk", key |-> KeyA] >>]
      [] OTHER -> [found |-> FALSE, indexed |-> FALSE, height |-> Zero32,
                   vout |-> << >>]

\* Solver(scriptPubKey, txType, vAddr)
Solver(script) ==
    CASE script.kind = "p2pk" -> [ret |-> TRUE, txType |-> "TX_PUBKEY", vAddr |-> << script.key >>]
      [] script.kind = "p2pkh" -> [ret |-> TRUE, txType |-> "TX_PUBKEYHASH", vAddr |-> << script.key >>]
      [] script.kind = "multisig" -> [ret |-> TRUE, txType |-> "TX_MULTISIG", vAddr |-> << script.key >>]
      [] OTHER -> [ret |-> FALSE, txType |-> "TX_NONSTANDARD", vAddr |-> << >>]

\* VerifyScript of input 0 against the source output: the input carries
\* whether its signature verifies
VerifyScript(stakeTx) == stakeTx.vin[1].sigOk

\* lines 160-177: the source output is solved; p1 is stakeParams after the
\* key of a pay-to-key output was adopted
ValidateSolved(stakeTx, validateSig, sol, p1) ==
    IF ~(\/ sol.txType = "TX_PUBKEY"
         \/ (sol.txType = "TX_PUBKEYHASH" /\ PubKeyIsFullyValid(p1.pk)))
    THEN [ret |-> FALSE, stakeParams |-> p1]
    ELSE [ret |-> ~validateSig \/ VerifyScript(stakeTx), stakeParams |-> p1]

\* lines 150-178: src is what the lookups of the source transaction give,
\* sol what Solver gives for the source output
ValidateSource(stakeTx, validateSig, p, src, sol) ==
    IF ~src.found THEN [ret |-> FALSE, stakeParams |-> p]
    ELSE IF ~src.indexed THEN [ret |-> FALSE, stakeParams |-> p]
    ELSE IF ~(/\ p.srcHeight = src.height
              /\ GeqInt32(Sub32(p.blkHeight, p.srcHeight), VERUS_MIN_STAKEAGE)
              /\ sol.ret)
    THEN [ret |-> FALSE, stakeParams |-> p]
    ELSE ValidateSolved(stakeTx, validateSig, sol,
             IF sol.txType = "TX_PUBKEY" /\ ~PubKeyIsValid(p.pk)
             THEN [p EXCEPT !.pk = CPubKey(sol.vAddr[1])]
             ELSE p)

\* lines 142-182: g is what GetStakeParams returns
ValidateDecoded(stakeTx, validateSig, g) ==
    IF ~g.ret THEN [ret |-> FALSE, stakeParams |-> g.stakeParams]
    ELSE ValidateSource(stakeTx, validateSig, g.stakeParams,
             Chain(stakeTx.vin[1].prevout.hash),
             Solver(Chain(stakeTx.vin[1].prevout.hash).vout[stakeTx.vin[1].prevout.n + 1]))

\* ValidateStakeTransaction(stakeTx, stakeParams, validateSig): [ret, stakeParams]
ValidateStakeTransaction(stakeTx, stakeParams, validateSig) ==
    ValidateDecoded(stakeTx, validateSig, GetStakeParams(stakeTx, stakeParams))

(***************************************************************************)
(* Guarded Output Builder.                                                 *)
(***************************************************************************)
\* CVerusHashWriter over (prevout.hash, prevout.n): the hash of the node,
\* stood for by a 32-byte value that differs for different (hash, n)
UtxoHash(prevout) == [i \in 1..32 |-> (16 * prevout.hash + prevout.n + i) % 256]

\* MakeCC1of2vout(EVAL_COINBASEGUARD, value, pk1, pk2)
MakeCC1of2vout(value, pk1, pk2) ==
    TxOut(value, [kind |-> "cc", keys |-> << pk1, pk2 >>, params |-> << >>])

\* COptCCParams(VERSION, EVAL_COINBASEGUARD, m, n, vPubKeys, vData)
COptCCParams(m, n, vPubKeys, vData) ==
    [valid |-> TRUE, m |-> m, n |-> n, vKeys |-> vPubKeys, vData |-> vData]

\* height[i] = (blkHeight >> (8 * i)) & 0xff, for i = 0..3
HeightBytes(blkHeight) == [i \in 1..4 |-> Shr32(blkHeight, 8 * (i - 1)).lo % 256]

\* lines 211-227: vout1 is the output after line 194, utxo the hash of
\* line 207, g what GetStakeParams returns
GuardedOutputFor(dest, ccAddress, vout1, utxo, g) ==
    IF g.ret
    THEN [ret |-> TRUE,
          vout |-> [vout1 EXCEPT !.scriptPubKey.params =
                      Append(@, COptCCParams(1, 2, << dest, ccAddress >>,
                                 << utxo, g.stakeParams.prevHash,
                                    HeightBytes(g.stakeParams.blkHeight) >>))]]
    ELSE [ret |-> FALSE, vout |-> vout1]

\* MakeGuardedOutput(value, dest, stakeTx, vout): [ret, vout].  The output
\* parameter is assigned before the stake transaction is looked at.
\* stakeTx.vin[0] is read unchecked: the callers pass at least one input.
MakeGuardedOutput(value, dest, stakeTx, vout) ==
    GuardedOutputFor(dest, CPubKey(GuardKey),
                     MakeCC1of2vout(value, dest, CPubKey(GuardKey)),
                     UtxoHash(stakeTx.vin[1].prevout),
                     GetStakeParams(stakeTx, CStakeParamsDefault))

(***************************************************************************)
(* Matching-Stake Detector.                                                *)
(***************************************************************************)
\* the default of the validateSig parameter where the Detector calls the
\* Validator with two arguments
DefaultValidateSig == FALSE

\* x << n for a uint32_t x: a count of 32 or more is undefined; the
\* machine either masks the count or shifts everything out
ShlOutcomes(x, n) ==
    IF n < 32 THEN {Shl32(x, n)} ELSE {Shl32(x, n % 32), Zero32}

\* for (i = 0; i < size; i++) height = height << 8 + vch[i];
\* `+` binds tighter than `<<`: the shift count is 8 + vch[i]
RECURSIVE ReconstructHeightLoop(_, _, _)
ReconstructHeightLoop(vch, i, heights) ==
    IF i < Len(vch)
    THEN ReconstructHeightLoop(vch, i + 1,
             UNION {ShlOutcomes(h, 8 + vch[i + 1]) : h \in heights})
    ELSE heights

\* the heights the Detector can reconstruct from the third metadata chunk
ReconstructHeight(vch) == ReconstructHeightLoop(vch, 0, {Zero32})

Verdict(ret, cheating) == [ret |-> ret, cheating |-> cheating]

\* lines 263-275: the verdict for one reconstructed height
MatchVerdict(ccp, p, utxo, height) ==
    IF utxo = ccp.vData[1]
    THEN IF p.prevHash # ccp.vData[2] /\ Geq32(p.blkHeight, height)
         THEN Verdict(TRUE, TRUE)
         ELSE IF p.blkHeight = height
         THEN Verdict(TRUE, FALSE)
         ELSE Verdict(FALSE, FALSE)
    ELSE Verdict(FALSE, FALSE)

\* lines 248-276: ccp is the COptCCParams of the guarded output, p the
\* candidate's stake params, utxo the hash of the candidate's source coin
MatchParams(ccp, p, utxo) ==
    IF ~(ccp.valid /\ Len(ccp.vData) >= 3 /\ Len(ccp.vData[3]) <= 4)
    THEN {Verdict(FALSE, FALSE)}
    ELSE { MatchVerdict(ccp, p, utxo, height)
           : height \in ReconstructHeight(ccp.vData[3]) }

\* lines 241-278: script is ccTx.vout[voutNum].scriptPubKey, v what
\* ValidateStakeTransaction returns
MatchValidated(script, stakeTx, v) ==
    IF ~v.ret THEN {Verdict(FALSE, FALSE)}
    ELSE IF ~(script.kind = "cc" /\ Len(script.params) > 0) THEN {Verdict(FALSE, FALSE)}
    ELSE MatchParams(script.params[1], v.stakeParams, UtxoHash(stakeTx.vin[1].prevout))

\* ValidateMatchingStake(ccTx, voutNum, stakeTx, cheating): the set of
\* [ret, cheating] the call can produce.  ccTx.vout[voutNum] is read
\* unchecked: voutNum is an index of ccTx.vout.
ValidateMatchingStake(ccTx, voutNum, stakeTx) ==
    IF ~IsCoinBase(ccTx) THEN {Verdict(FALSE, FALSE)}
    ELSE MatchValidated(ccTx.vout[voutNum + 1].scriptPubKey, stakeTx,
             ValidateStakeTransaction(stakeTx, CStakeParamsDefault, DefaultValidateSig))

(***************************************************************************)
(* Cheat-Evidence Builder.                                                 *)
(***************************************************************************)
\* CTransaction::Serialize / Unserialize, the transaction codec of the
\* node: the bytes are stood for by one cell holding the transaction; a
\* cell with ok = FALSE is a byte string that does not parse
Serialize(tx) == << [ok |-> TRUE, tx |-> tx] >>

\* the evidence output: OP_RETURN << (OPRETTYPE_STAKECHEAT << serialized tx)
EvidenceOut(cheatTx) ==
    TxOut(0, OpRet("one", << SmallInt(OPRETTYPE_STAKECHEAT), Push(Serialize(cheatTx)) >>))

\* lines 293-301: mtx with the evidence output pushed
WithEvidence(mtx, cheatTx) == [mtx EXCEPT !.vout = Append(@, EvidenceOut(cheatTx))]

\* MakeCheatEvidence(mtx, ccTx, voutNum, cheatTx): the set of
\* [returns, ret, mtx] the call can produce.  The function is declared bool
\* and has no return statement, so every call flows off its end, which is
\* undefined: a build either returns an indeterminate value after the body
\* ran as written, or runs on past the end of the function and never comes
\* back to the caller, mtx being left with or without the output whatever
\* the verdict was.
MakeCheatEvidence(mtx, ccTx, voutNum, cheatTx) ==
    { [returns |-> TRUE, ret |-> r,
       mtx |-> IF v.ret /\ v.cheating THEN WithEvidence(mtx, cheatTx) ELSE mtx]
      : v \in ValidateMatchingStake(ccTx, voutNum, cheatTx), r \in BOOLEAN }
    \cup { [returns |-> FALSE, ret |-> FALSE, mtx |-> m]
           : m \in {mtx, WithEvidence(mtx, cheatTx)} }

(***************************************************************************)
(* Bounds of the inputs.                                                   *)
(***************************************************************************)
NumHashes == 2
MaxHeightChunk == 5
MaxVin == 2
MaxVout == 3

\* 32-byte previous-block hashes
H(k) == [i \in 1..32 |-> k]

Hashes == {H(k) : k \in 1..NumHashes}

Max32 == U32(Half - 1, Half - 1)

\* the least number of bytes that hold h
MinLen(h) ==
    IF h.hi >= 256 THEN 4
    ELSE IF h.hi > 0 THEN 3
    ELSE IF h.lo >= 256 THEN 2
    ELSE IF h.lo > 0 THEN 1
    ELSE 0

\* h in little-endian order on len bytes (bytes beyond the fourth are zero)
HeightChunk(h, len) == [i \in 1..len |-> IF i <= 4 THEN HeightBytes(h)[i] ELSE 0]

(***************************************************************************)
(* The stake-params chunk layout the staker writes:                        *)
(* [tag, source height LE, target height LE, prev hash, optional key];     *)
(* ls and lb are the lengths of the two height chunks.                     *)
(***************************************************************************)
EncodeStakeParams(p, ls, lb) ==
    << << OPRETTYPE_STAKEPARAMS >>, HeightChunk(p.srcHeight, ls),
       HeightChunk(p.blkHeight, lb), p.prevHash >>
    \o (IF PubKeyIsValid(p.pk) THEN << p.pk >> ELSE << >>)

\* the inner script of the stake OP_RETURN for a chunk sequence: the tag is
\* written as a small-integer opcode, the rest as pushes
StakeScript(vData) ==
    [i \in 1..Len(vData) |->
       IF i = 1 /\ Len(vData[1]) = 1 /\ vData[1][1] \in 1..16
       THEN SmallInt(vData[1][1]) ELSE Push(vData[i])]

\* the stake OP_RETURN: one push of the inner script
StakeOpRet(vData) == OpRet("one", StakeScript(vData))

TxIn(hash, n, sigOk, cc) ==
    [prevout |-> [hash |-> hash, n |-> n], sigOk |-> sigOk, cc |-> cc]

PayToKey(key) == [kind |-> "p2pk", key |-> key]

\* a stake transaction: one input spending coin, the staked value, the
\* stake-params OP_RETURN
StakeTx(coin, sigOk, vData) ==
    [vin |-> << TxIn(coin, 0, sigOk, "none") >>,
     vout |-> << TxOut(5, PayToKey(KeyA)), TxOut(0, StakeOpRet(vData)) >>]

\* heights used for stake transactions
TxSrcHeights == {ToU32(100), ToU32(70000)}
TxBlkHeights == {Zero32, ToU32(50), ToU32(249), ToU32(250), ToU32(260), ToU32(70150), Max32}
TxKeys == {InvalidKey, KeyB, KeyOffCurve}

WellFormedTxs ==
    { StakeTx(coin, sigOk, EncodeStakeParams(StakeParams(src, blk, h, key), 4, 4))
      : coin \in 1..7, sigOk \in BOOLEAN, src \in TxSrcHeights,
        blk \in TxBlkHeights, h \in Hashes, key \in TxKeys }

\* chunk sequences handed to the CStakeParams constructor
DecodeHeights == {Zero32, ToU32(1), ToU32(250), ToU32(70150), Max32}
DecodeHeightChunks ==
    {HeightChunk(h, len) : h \in DecodeHeights, len \in 0..MaxHeightChunk}
DecodeTags == { << OPRETTYPE_STAKEPARAMS >>, << OPRETTYPE_STAKECHEAT >>,
                << OPRETTYPE_STAKEPARAMS, 0 >>, << >> }
DecodeHashes == Hashes \cup { [i \in 1..31 |-> 1] }
DecodeKeys == { << KeyA >>, << KeyBadHeader >>, << [i \in 1..32 |-> 2] >>, << >> }

DecodeInputs ==
    { << tag, s, b, h >> \o key
      : tag \in DecodeTags, s \in DecodeHeightChunks, b \in DecodeHeightChunks,
        h \in DecodeHashes, key \in DecodeKeys }

\* valid stake params and the chunk lengths they may be written with
EncodeHeights == {ToU32(1), ToU32(100), ToU32(250), ToU32(260), ToU32(70150),
                  U32(Half \div 2, 0), Max32}
EncodeInputs ==
    { e \in { [p |-> StakeParams(src, blk, h, key), ls |-> ls, lb |-> lb]
              : src \in EncodeHeights, blk \in EncodeHeights \cup {Zero32},
                h \in Hashes, key \in {InvalidKey, KeyA, KeyB},
                ls \in 0..4, lb \in 0..4 }
      : e.ls >= MinLen(e.p.srcHeight) /\ e.lb >= MinLen(e.p.blkHeight) }

\* transactions of any shape for the structural checks
GoodData == EncodeStakeParams(StakeParams(ToU32(100), ToU32(250), H(1), InvalidKey), 4, 4)
ZeroSrcData == EncodeStakeParams(StakeParams(Zero32, ToU32(250), H(1), InvalidKey), 4, 4)
BadKeyData == GoodData \o << KeyBadHeader >>

ShapeScripts ==
    { StakeOpRet(GoodData), StakeOpRet(ZeroSrcData), StakeOpRet(BadKeyData),
      StakeOpRet(GoodData \o << KeyA >>),
      StakeOpRet(GoodData \o << KeyA, KeyB >>),
      StakeOpRet(SubSeq(GoodData, 1, 3)),
      OpRet("one", [i \in 1..4 |-> Push(GoodData[i])]),
      OpRet("one", StakeScript(GoodData) \o << NonData >>),
      OpRet("one", StakeScript(GoodData) \o << BadOp >>),
      OpRet("none", StakeScript(GoodData)),
      OpRet("many", StakeScript(GoodData)),
      PayToKey(KeyA) }

ShapeTxs ==
    { [vin |-> [i \in 1..nVin |-> TxIn(1, 0, TRUE, "none")],
       vout |-> [i \in 1..nVout |->
                   IF i = 1 THEN TxOut(value, PayToKey(KeyA))
                   ELSE IF i = 2 THEN TxOut(0, script)
                   ELSE TxOut(0, StakeOpRet(GoodData))]]
      : nVin \in 0..MaxVin, nVout \in 0..MaxVout, value \in {0, 5}, script \in ShapeScripts }

AnyTxs == WellFormedTxs \cup ShapeTxs

(***************************************************************************)
(* Coinbase rewards carrying a guarded output.                             *)
(***************************************************************************)
\* the winning stakes the rewards are bound to
RewardStakes ==
    << StakeTx(1, TRUE, EncodeStakeParams(StakeParams(ToU32(100), ToU32(250), H(1), InvalidKey), 4, 4)),
       StakeTx(1, TRUE, EncodeStakeParams(StakeParams(ToU32(100), ToU32(260), H(2), InvalidKey), 4, 4)),
       StakeTx(2, TRUE, EncodeStakeParams(StakeParams(ToU32(100), ToU32(250), H(1), KeyB), 4, 4)),
       StakeTx(6, TRUE, EncodeStakeParams(StakeParams(ToU32(70000), ToU32(70150), H(1), InvalidKey), 4, 4)),
       StakeTx(1, TRUE, EncodeStakeParams(StakeParams(ToU32(100), Zero32, H(1), InvalidKey), 4, 4)) >>

Coinbase(out) ==
    [vin |-> << [prevout |-> NullPrevout, sigOk |-> TRUE, cc |-> "none"] >>,
     vout |-> << out, TxOut(1, PayToKey(KeyA)) >>]

\* the coinbase whose output 0 is the guarded output built from stake k
RewardTx(k) == Coinbase(MakeGuardedOutput(5, KeyA, RewardStakes[k], NullTxOut).vout)

\* the rewards on the chain, by the index of their stake
RewardChain == [k \in 1..Len(RewardStakes) |-> RewardTx(k)]

RewardTxs == {RewardChain[k] : k \in 1..Len(RewardStakes)}

\* guarded outputs a miner may have written differently
OddRewardTxs ==
    LET out == RewardChain[1].vout[1]
        ccp == out.scriptPubKey.params[1]
    IN  { Coinbase([out EXCEPT !.scriptPubKey.params = << >>]),
          Coinbase([out EXCEPT !.scriptPubKey.params = << [ccp EXCEPT !.valid = FALSE] >>]),
          Coinbase([out EXCEPT !.scriptPubKey.params = << [ccp EXCEPT !.vData = SubSeq(@, 1, 2)] >>]),
          Coinbase([out EXCEPT !.scriptPubKey.params = << [ccp EXCEPT !.vData[3] = HeightChunk(ToU32(250), 5)] >>]),
          Coinbase([out EXCEPT !.scriptPubKey.params = << [ccp EXCEPT !.vData[3] = HeightChunk(ToU32(250), 1)] >>]),
          [RewardChain[1] EXCEPT !.vin[1].prevout = [hash |-> 1, n |-> 0]] }

\* candidate stake transactions shown to the Detector
CandidateTxs ==
    { StakeTx(coin, sigOk, EncodeStakeParams(StakeParams(src, blk, h, InvalidKey), 4, 4))
      : coin \in {1, 2, 6, 7}, sigOk \in BOOLEAN, src \in TxSrcHeights,
        blk \in {Zero32, ToU32(249), ToU32(250), ToU32(260), ToU32(70150)}, h \in Hashes }
    \cup { tx \in ShapeTxs : Len(tx.vin) = 1 /\ Len(tx.vout) = 2 }

(***************************************************************************)
(* Spend Authorizer.                                                       *)
(***************************************************************************)
\* myGetTransaction for the rewards: eval is the node's view of the chain,
\* the sequence of reward transactions; reward k has transaction id 100 + k
LookupReward(eval, hash) ==
    IF hash - 100 \in 1..Len(eval)
    THEN [found |-> TRUE, tx |-> eval[hash - 100]]
    ELSE [found |-> FALSE, tx |-> Coinbase(NullTxOut)]

\* GetCryptoCondition(scriptSig): the fulfillment of the input, "none" when
\* the scriptSig holds no condition; otherwise the branch of the 1-of-2
\* condition that signed it ("dest" or "guard")
GetCryptoCondition(in) == in.cc

\* the chunks of the spending transaction's trailing OP_RETURN; r is what
\* reading its single push as a script gives
ParamsRead(txOut, pre, last, r) ==
    IF last.ok /\ Len(last.chunks) = 1 /\ r.isValid
    THEN [ret |-> TRUE, txOut |-> txOut, preConditions |-> pre, params |-> r.vData]
    ELSE [ret |-> FALSE, txOut |-> txOut, preConditions |-> pre, params |-> << >>]

\* prev is the transaction of the output being spent, n the output index
GetCCParamsFound(tx, prev, n) ==
    IF ~(prev.found /\ Len(prev.tx.vout) > n)
    THEN [ret |-> FALSE, txOut |-> prev.tx, preConditions |-> << >>, params |-> << >>]
    ELSE IF prev.tx.vout[n + 1].scriptPubKey.kind # "cc"
    THEN [ret |-> FALSE, txOut |-> prev.tx, preConditions |-> << >>, params |-> << >>]
    ELSE IF Len(tx.vout) > 0 /\ IsOpReturn(tx.vout[Len(tx.vout)].scriptPubKey)
    THEN ParamsRead(prev.tx, prev.tx.vout[n + 1].scriptPubKey.params,
                    tx.vout[Len(tx.vout)].scriptPubKey,
                    UnpackLoop(tx.vout[Len(tx.vout)].scriptPubKey.chunks[1], 1, 0, << >>))
    ELSE [ret |-> TRUE, txOut |-> prev.tx,
          preConditions |-> prev.tx.vout[n + 1].scriptPubKey.params, params |-> << >>]

\* GetCCParams(eval, tx, nIn, txOut, preConditions, params): looks up the
\* transaction of the output being spent and reads the chunks of the
\* spending transaction's trailing OP_RETURN
GetCCParams(eval, tx, nIn) ==
    GetCCParamsFound(tx, LookupReward(eval, tx.vin[nIn + 1].prevout.hash),
                     tx.vin[nIn + 1].prevout.n)

\* cheatTx.Unserialize(s) inside try/catch
Unserialize(vch) ==
    IF Len(vch) = 1 /\ vch[1].ok THEN [ok |-> TRUE, tx |-> vch[1].tx]
    ELSE [ok |-> FALSE, tx |-> Coinbase(NullTxOut)]

\* the call returned signedByFirstKey || validCheat
Decision(signedByFirstKey, validCheat) ==
    [returns |-> TRUE, ret |-> signedByFirstKey \/ validCheat,
     signedByFirstKey |-> signedByFirstKey, validCheat |-> validCheat]

\* the call did not return: the read of line 336 aborted it
Aborted(signedByFirstKey) ==
    [returns |-> FALSE, ret |-> FALSE,
     signedByFirstKey |-> signedByFirstKey, validCheat |-> FALSE]

\* lines 334-337: preConditions[1] is the second element, read when the
\* vector is only known to be non-empty
ReadsPastPreConditions(g) ==
    /\ Len(g.preConditions) > 0
    /\ Len(g.params) > 0
    /\ Len(g.preConditions) < 2

\* lines 339-361: the evidence branch and the return
AuthorizeCheat(tx, g, signedByFirstKey) ==
    IF /\ ~signedByFirstKey
       /\ Len(g.params) > 1
       /\ g.params[1][1] = OPRETTYPE_STAKECHEAT
       /\ Unserialize(g.params[2]).ok
    THEN { Decision(signedByFirstKey, v.ret /\ v.cheating)
           : v \in ValidateMatchingStake(g.txOut, tx.vin[1].prevout.n, tx) }
    ELSE { Decision(signedByFirstKey, FALSE) }

\* lines 327-361: cc is the fulfillment of input nIn, g what GetCCParams
\* returns, signedByFirstKey the local of line 324.  Reading past the end of
\* preConditions is undefined: the copy of line 336 either aborts the call
\* or builds a local that is dropped, and the call goes on.
Authorize(tx, cc, g, signedByFirstKey) ==
    IF cc = "none" \/ ~g.ret
    THEN { Decision(signedByFirstKey, FALSE) }
    ELSE (IF ReadsPastPreConditions(g) THEN { Aborted(signedByFirstKey) } ELSE { })
         \cup AuthorizeCheat(tx, g, signedByFirstKey)

\* CoinbaseGuardValidate(cp, eval, tx, nIn): the set of decisions the call
\* can produce.  signedByFirstKey is initialised to true and never assigned.
CoinbaseGuardValidate(eval, tx, nIn) ==
    Authorize(tx, GetCryptoCondition(tx.vin[nIn + 1]), GetCCParams(eval, tx, nIn), TRUE)

\* evidence payloads a spender may attach
EvidenceTxs ==
    { StakeTx(coin, TRUE, EncodeStakeParams(StakeParams(ToU32(100), blk, h, InvalidKey), 4, 4))
      : coin \in {1, 2}, blk \in {ToU32(249), ToU32(250), ToU32(260)}, h \in Hashes }

Garbage == << [ok |-> FALSE, tx |-> Coinbase(NullTxOut)] >>

EvidenceOuts ==
    { << >> }
    \cup { << EvidenceOut(c) >> : c \in EvidenceTxs }
    \cup { << TxOut(0, OpRet("one", << SmallInt(OPRETTYPE_STAKECHEAT), Push(Garbage) >>)) >>,
           << TxOut(0, OpRet("one", << SmallInt(OPRETTYPE_STAKEPARAMS),
                                       Push(Serialize(RewardStakes[2])) >>)) >> }

\* a spend of guarded outputs: input nIn spends output 0 of reward k with a
\* fulfillment of branch cc; the other inputs are owner spends of reward 2
SpendTx(nVin, nIn, k, cc, ev) ==
    [vin |-> [i \in 1..nVin |-> IF i = nIn + 1 THEN TxIn(100 + k, 0, TRUE, cc)
                               ELSE TxIn(102, 0, TRUE, "dest")],
     vout |-> << TxOut(5, PayToKey(KeyB)) >> \o ev]

(***************************************************************************)
(* State: the call in progress (op = "none" between calls), its arguments, *)
(* and what it returned or wrote.                                          *)
(***************************************************************************)
VARIABLES op, args, result

vars == << op, args, result >>

Init ==
    /\ op = "none"
    /\ args = << >>
    /\ result = << >>

\* CStakeParams::CStakeParams(vData) on any 4 or 5 chunks
Construct ==
    /\ op = "none"
    /\ \E vData \in DecodeInputs :
           /\ op' = "CStakeParams"
           /\ args' = [vData |-> vData]
           /\ result' = [stakeParams |-> CStakeParams(vData)]

\* CStakeParams::CStakeParams(vData) on the chunks written for valid params
ConstructEncoded ==
    /\ op = "none"
    /\ \E e \in EncodeInputs :
           /\ op' = "CStakeParamsEncoded"
           /\ args' = [p |-> e.p, ls |-> e.ls, lb |-> e.lb,
                       vData |-> EncodeStakeParams(e.p, e.ls, e.lb)]
           /\ result' = [stakeParams |-> CStakeParams(EncodeStakeParams(e.p, e.ls, e.lb))]

CallGetStakeParams ==
    /\ op = "none"
    /\ \E stakeTx \in AnyTxs :
           /\ op' = "GetStakeParams"
           /\ args' = [stakeTx |-> stakeTx, stakeParams |-> CStakeParamsDefault]
           /\ result' = GetStakeParams(stakeTx, CStakeParamsDefault)

CallValidateStakeTransaction ==
    /\ op = "none"
    /\ \E stakeTx \in AnyTxs, validateSig \in BOOLEAN :
           /\ op' = "ValidateStakeTransaction"
           /\ args' = [stakeTx |-> stakeTx, stakeParams |-> CStakeParamsDefault,
                       validateSig |-> validateSig]
           /\ result' = ValidateStakeTransaction(stakeTx, CStakeParamsDefault, validateSig)

CallMakeGuardedOutput ==
    /\ op = "none"
    /\ \E dest \in {KeyA, KeyB}, stakeTx \in {tx \in AnyTxs : Len(tx.vin) >= 1},
          vout \in {NullTxOut, RewardChain[2].vout[1]} :
           /\ op' = "MakeGuardedOutput"
           /\ args' = [value |-> 5, dest |-> dest, stakeTx |-> stakeTx, vout |-> vout]
           /\ result' = MakeGuardedOutput(5, dest, stakeTx, vout)

CallValidateMatchingStake ==
    /\ op = "none"
    /\ \E ccTx \in RewardTxs \cup OddRewardTxs, voutNum \in {0, 1}, stakeTx \in CandidateTxs :
           /\ op' = "ValidateMatchingStake"
           /\ args' = [ccTx |-> ccTx, voutNum |-> voutNum, stakeTx |-> stakeTx]
           /\ \E v \in ValidateMatchingStake(ccTx, voutNum, stakeTx) : result' = v

CallMakeCheatEvidence ==
    /\ op = "none"
    /\ \E k \in 1..Len(RewardStakes), ccTx \in RewardTxs \cup OddRewardTxs,
          voutNum \in {0, 1}, cheatTx \in EvidenceTxs :
           /\ op' = "MakeCheatEvidence"
           /\ args' = [mtx |-> SpendTx(1, 0, k, "guard", << >>), ccTx |-> ccTx,
                       voutNum |-> voutNum, cheatTx |-> cheatTx]
           /\ \E r \in MakeCheatEvidence(SpendTx(1, 0, k, "guard", << >>), ccTx, voutNum, cheatTx) :
                  result' = r

CallCoinbaseGuardValidate ==
    /\ op = "none"
    /\ \E nVin \in 1..MaxVin, nIn \in 0..(MaxVin - 1), k \in 1..(Len(RewardStakes) + 1),
          cc \in {"none", "dest", "guard"}, ev \in EvidenceOuts :
           /\ nIn < nVin
           /\ op' = "CoinbaseGuardValidate"
           /\ args' = [tx |-> SpendTx(nVin, nIn, k, cc, ev), nIn |-> nIn]
           /\ \E d \in CoinbaseGuardValidate(RewardChain, SpendTx(nVin, nIn, k, cc, ev), nIn) :
                  result' = d

\* the call is over: its arguments and results go out of scope
Return ==
    /\ op # "none"
    /\ op' = "none"
    /\ args' = << >>
    /\ result' = << >>

Next ==
    \/ Construct
    \/ ConstructEncoded
    \/ CallGetStakeParams
    \/ CallValidateStakeTransaction
    \/ CallMakeGuardedOutput
    \/ CallValidateMatchingStake
    \/ CallMakeCheatEvidence
    \/ CallCoinbaseGuardValidate
    \/ Return

Spec == Init /\ [][Next]_vars

(***************************************************************************)
(* Properties.                                                             *)
(***************************************************************************)

\* what a guarded output records, read by the layout
\* [fingerprint, prevHash, targetHeight little-endian]
HasRecord(ccTx, voutNum) ==
    /\ IsCoinBase(ccTx)
    /\ ccTx.vout[voutNum + 1].scriptPubKey.kind = "cc"
    /\ Len(ccTx.vout[voutNum + 1].scriptPubKey.params) > 0
    /\ ccTx.vout[voutNum + 1].scriptPubKey.params[1].valid
    /\ Len(ccTx.vout[voutNum + 1].scriptPubKey.params[1].vData) >= 3
    /\ Len(ccTx.vout[voutNum + 1].scriptPubKey.params[1].vData[3]) <= 4

Recorded(ccTx, voutNum) ==
    LET vData == ccTx.vout[voutNum + 1].scriptPubKey.params[1].vData
    IN  [utxo |-> vData[1], prevHash |-> vData[2],
         height |-> U32(
             (IF Len(vData[3]) >= 3 THEN vData[3][3] ELSE 0)
               + 256 * (IF Len(vData[3]) >= 4 THEN vData[3][4] ELSE 0),
             (IF Len(vData[3]) >= 1 THEN vData[3][1] ELSE 0)
               + 256 * (IF Len(vData[3]) >= 2 THEN vData[3][2] ELSE 0))]

\* a candidate that is a valid stake transaction, signature included
ValidCandidate(stakeTx) ==
    ValidateStakeTransaction(stakeTx, CStakeParamsDefault, TRUE).ret

\* the decoded params of a valid candidate
CandidateParams(stakeTx) == GetStakeParams(stakeTx, CStakeParamsDefault).stakeParams

\* a candidate over the coin the guarded output records
SameCoin(ccTx, voutNum, stakeTx) ==
    /\ HasRecord(ccTx, voutNum)
    /\ ValidCandidate(stakeTx)
    /\ UtxoHash(stakeTx.vin[1].prevout) = Recorded(ccTx, voutNum).utxo

\* the evidence of a spend proves cheating against the output input nIn spends
EvidenceProvesCheat(tx, nIn) ==
    LET g == GetCCParams(RewardChain, tx, nIn)
    IN  /\ g.ret
        /\ Len(g.params) > 1
        /\ g.params[1] = << OPRETTYPE_STAKECHEAT >>
        /\ Unserialize(g.params[2]).ok
        /\ ValidateMatchingStake(g.txOut, tx.vin[nIn + 1].prevout.n,
                                 Unserialize(g.params[2]).tx) = {Verdict(TRUE, TRUE)}

\* C1: a spend of a guarded output whose fulfillment was not produced by the
\* destination key's branch is never authorized (the call does not return
\* true) unless it carries evidence that deserializes and for which the
\* Detector returns {matches, cheating}.
C1_GuardSpendNeedsEvidence ==
    (/\ op = "CoinbaseGuardValidate"
     /\ LookupReward(RewardChain, args.tx.vin[args.nIn + 1].prevout.hash).found
     /\ args.tx.vin[args.nIn + 1].cc = "guard"
     /\ ~EvidenceProvesCheat(args.tx, args.nIn)) =>
        ~(result.returns /\ result.ret)

\* C3: for a candidate over the recorded coin with a different prevHash, the
\* verdict is cheating when its target height is at least the recorded
\* height, and not cheating when it is below.
C3_CheatBoundary ==
    (op = "ValidateMatchingStake" /\ SameCoin(args.ccTx, args.voutNum, args.stakeTx)
       /\ CandidateParams(args.stakeTx).prevHash # Recorded(args.ccTx, args.voutNum).prevHash) =>
        /\ Geq32(CandidateParams(args.stakeTx).blkHeight, Recorded(args.ccTx, args.voutNum).height)
             => result.cheating
        /\ Lt32(CandidateParams(args.stakeTx).blkHeight, Recorded(args.ccTx, args.voutNum).height)
             => ~result.cheating

\* C4: a candidate over the recorded coin with the recorded prevHash and the
\* recorded target height gets exactly {matches: true, cheating: false}.
C4_EqualClaim ==
    (op = "ValidateMatchingStake" /\ SameCoin(args.ccTx, args.voutNum, args.stakeTx)
       /\ CandidateParams(args.stakeTx).prevHash = Recorded(args.ccTx, args.voutNum).prevHash
       /\ CandidateParams(args.stakeTx).blkHeight = Recorded(args.ccTx, args.voutNum).height) =>
        result = Verdict(TRUE, FALSE)

\* C5: decoding the chunks written for valid stake params p gives back a
\* valid value equal to p, also when the height chunks drop their
\* high-order zero bytes.
C5_RoundTrip ==
    (op = "CStakeParamsEncoded") =>
        (IsValid(result.stakeParams) /\ result.stakeParams = args.p)

\* C5 witness: params with a delegate key, a source height sent on one byte
\* and a target height with the top bit set, decoded back to themselves.
C5_Witness ==
    /\ op = "CStakeParamsEncoded"
    /\ args.ls = 1
    /\ args.lb = 4
    /\ args.p.blkHeight = Max32
    /\ args.p.pk = KeyB
    /\ result.stakeParams = args.p

\* C6: the Validator accepts only if targetHeight >= sourceHeight +
\* minimumStakeAge as integers, with or without the signature check.
C6_StakeAge ==
    (op = "ValidateStakeTransaction" /\ result.ret) =>
        /\ Geq32(result.stakeParams.blkHeight, result.stakeParams.srcHeight)
        /\ Geq32(Sub32(result.stakeParams.blkHeight, result.stakeParams.srcHeight),
                 ToU32(VERUS_MIN_STAKEAGE))

\* C7: the evidence output is appended exactly when the Detector's verdict is
\* {matches, cheating}, the transaction is unchanged otherwise, and the
\* returned value is success exactly when the output was appended.
C7_EvidenceAppended ==
    (op = "MakeCheatEvidence") =>
        LET proved == ValidateMatchingStake(args.ccTx, args.voutNum, args.cheatTx)
                        = {Verdict(TRUE, TRUE)}
        IN  /\ result.returns
            /\ proved => result.mtx = WithEvidence(args.mtx, args.cheatTx)
            /\ ~proved => result.mtx = args.mtx
            /\ result.ret = proved

\* C8: when the transaction is not a decodable stake transaction,
\* MakeGuardedOutput returns failure and leaves the caller's output unchanged.
C8_FailureLeavesOutput ==
    (op = "MakeGuardedOutput"
       /\ ~GetStakeParams(args.stakeTx, CStakeParamsDefault).ret) =>
        (result.ret = FALSE /\ result.vout = args.vout)

\* the shape a chunk sequence needs to decode to a valid value
WellShaped(vData) ==
    /\ vData[1] = << OPRETTYPE_STAKEPARAMS >>
    /\ Len(vData[2]) <= 4
    /\ Len(vData[3]) <= 4
    /\ Len(vData[4]) = 32
    /\ Len(vData) = 5 => (Len(vData[5]) = 33 /\ vData[5][1] \in {2, 3})

\* C9: the constructor gives sourceHeight # 0 only for a well-shaped chunk
\* sequence, and GetStakeParams returns true only for a transaction with one
\* input, two outputs, positive value on output 0 and an OP_RETURN output 1
\* whose chunks decode to a valid value.
C9_DecodeSentinel ==
    /\ (op = "CStakeParams" /\ ~WellShaped(args.vData)) =>
           result.stakeParams.srcHeight = Zero32
    /\ (op = "GetStakeParams" /\ result.ret) =>
           /\ Len(args.stakeTx.vin) = 1
           /\ Len(args.stakeTx.vout) = 2
           /\ args.stakeTx.vout[1].nValue > 0
           /\ args.stakeTx.vout[2].scriptPubKey.kind = "opret"
           /\ WellShaped(UnpackStakeOpRet(args.stakeTx).vData)
           /\ result.stakeParams.srcHeight # Zero32

\* C9 witness: five chunks of the right sizes whose key does not parse: the
\* heights and hash were read, and the result is the sentinel.
C9_Witness ==
    /\ op = "CStakeParams"
    /\ Len(args.vData) = 5
    /\ args.vData[1] = << OPRETTYPE_STAKEPARAMS >>
    /\ args.vData[2] = << 1 >>
    /\ args.vData[5] = KeyBadHeader
    /\ result.stakeParams.blkHeight = ToU32(250)
    /\ result.stakeParams.srcHeight = Zero32

\* C10: the height the Detector reconstructs from the third metadata chunk
\* of a guarded output is the target height the Builder wrote into it.
C10_HeightAgreement ==
    (op = "MakeGuardedOutput" /\ result.ret) =>
        ReconstructHeight(result.vout.scriptPubKey.params[1].vData[3])
            = {GetStakeParams(args.stakeTx, CStakeParamsDefault).stakeParams.blkHeight}

====
